---- MODULE Spec2Model ----
(***************************************************************************)
(* tei_rdfa: extraction of RDFa annotations from a TEI-XML tree into a set *)
(* of RDF triples.  Strings are TLA+ strings; an Optional[str] is <<>>     *)
(* (None) or <<s>>; a graph term is <<"uri", s>> (URIRef) or <<"lit", s>>  *)
(* (Literal); a triple is <<subject, predicate, object>>.                  *)
(***************************************************************************)
EXTENDS Integers, Sequences, FiniteSets, TLC

VARIABLES
    doc,          \* the parsed XML tree: its nodes in document order
    prefix_map,   \* prefix -> base URI, as returned by get_tei_prefixes
    xpath_expr,   \* None, a malformed query, or the elements a query selects
    pc,           \* position of tei_rdfa
    elements,     \* matched elements process_xpath_elements still has to walk
    stack,        \* activation records of process_element, innermost last
    graph,        \* the rdflib Graph: a set of triples
    emitted,      \* the graph.add calls of the last processor that ran
    result,       \* what tei_rdfa returned or raised
    call,         \* a direct call of a helper function and its return values
    pool          \* pending (element, inherited subject) walks, any-order walk

vars == <<doc, prefix_map, xpath_expr, pc, elements, stack, graph, emitted,
          result, call, pool>>

----------------------------------------------------------------------------
(* Bounds of the model *)

MaxNodes == 3
MaxLen == 4

----------------------------------------------------------------------------
(* Values *)

None == <<>>
Some(s) == <<s>>
Truthy(o) == o # None /\ o[1] # ""
URIRef(s) == <<"uri", s>>
Literal(s) == <<"lit", s>>
RDF_type == URIRef("http://www.w3.org/1999/02/22-rdf-syntax-ns#type")
Whitespace == {" ", "\t", "\n", "\r", "\f"}
AttrNames == {"about", "typeof", "property", "rel", "rev", "resource", "content"}

Min(S) == CHOOSE x \in S : \A y \in S : x <= y

Char(s, i) == SubSeq(s, i, i)

RECURSIVE lstrip(_)
lstrip(s) == IF s # "" /\ Char(s, 1) \in Whitespace
             THEN lstrip(SubSeq(s, 2, Len(s)))
             ELSE s

RECURSIVE rstrip(_)
rstrip(s) == IF s # "" /\ Char(s, Len(s)) \in Whitespace
             THEN rstrip(SubSeq(s, 1, Len(s) - 1))
             ELSE s

strip(s) == rstrip(lstrip(s))

RECURSIVE split(_)
split(s) ==
    LET t == lstrip(s)
        ws == {i \in 1..Len(t) : Char(t, i) \in Whitespace}
        n == IF ws = {} THEN Len(t) ELSE Min(ws) - 1
    IN IF t = "" THEN <<>>
       ELSE <<SubSeq(t, 1, n)>> \o split(SubSeq(t, n + 1, Len(t)))

RECURSIVE join(_)
join(parts) == IF Len(parts) = 0 THEN ""
               ELSE IF Len(parts) = 1 THEN parts[1]
               ELSE parts[1] \o " " \o join(Tail(parts))

HasColon(s) == \E i \in 1..Len(s) : Char(s, i) = ":"
FirstColon(s) == Min({i \in 1..Len(s) : Char(s, i) = ":"})
PrefixOf(s) == SubSeq(s, 1, FirstColon(s) - 1)
LocalOf(s) == SubSeq(s, FirstColon(s) + 1, Len(s))

----------------------------------------------------------------------------
(* expand_uri *)

expand_uri_dropsColonTail(uri_ref, pm) ==
    IF HasColon(uri_ref)
    THEN IF PrefixOf(uri_ref) \in DOMAIN pm
         THEN pm[PrefixOf(uri_ref)] \o LocalOf(uri_ref)
         ELSE LocalOf(uri_ref)
    ELSE uri_ref

expand_uri(uri_ref, pm) ==
    IF HasColon(uri_ref) /\ PrefixOf(uri_ref) \in DOMAIN pm
    THEN pm[PrefixOf(uri_ref)] \o LocalOf(uri_ref)
    ELSE uri_ref

----------------------------------------------------------------------------
(* Elements *)

Has(el, a) == el.attrib[a] # None
Attr(el, a) == el.attrib[a][1]

determine_subject_ignoresProperty(el, parent_subject, pm) ==
    IF Has(el, "about") THEN Some(expand_uri(Attr(el, "about"), pm))
    ELSE IF Has(el, "resource")
            /\ ~(Has(el, "rel") \/ Has(el, "rev"))
         THEN Some(expand_uri(Attr(el, "resource"), pm))
         ELSE parent_subject

determine_subject(el, parent_subject, pm) ==
    IF Has(el, "about") THEN Some(expand_uri(Attr(el, "about"), pm))
    ELSE IF Has(el, "resource") /\ ~Has(el, "property")
            /\ ~(Has(el, "rel") \/ Has(el, "rev"))
         THEN Some(expand_uri(Attr(el, "resource"), pm))
         ELSE parent_subject

(* The tree: d[i] is the i-th node in document order; d[i].parent is the   *)
(* index of its parent, 0 for the root.  Iterating an lxml element yields  *)
(* its child elements and comments alike.                                  *)

Children(d, i) == {j \in DOMAIN d : d[j].parent = i}

RECURSIVE IsAncestor(_, _, _)
IsAncestor(d, a, j) ==
    /\ d[j].parent # 0
    /\ (d[j].parent = a \/ IsAncestor(d, a, d[j].parent))

Descendants(d, i) == {j \in DOMAIN d : IsAncestor(d, i, j)}
Subtree(d, i) == {i} \cup Descendants(d, i)

\* a set of node indices as the sequence of its members in document order
RECURSIVE InDocOrder(_)
InDocOrder(S) == IF S = {} THEN <<>>
                 ELSE <<Min(S)>> \o InDocOrder(S \ {Min(S)})

SeqToSet(s) == {s[k] : k \in 1..Len(s)}

----------------------------------------------------------------------------
(* The attribute processors.  Each *_adds operator is the sequence of the  *)
(* triples the processor passes to graph.add, in the order of the calls.   *)

typeof_adds(el, subject, pm) ==
    IF ~Has(el, "typeof") THEN <<>>
    ELSE LET types == split(Attr(el, "typeof"))
         IN [k \in 1..Len(types) |->
                <<URIRef(subject), RDF_type, URIRef(expand_uri(types[k], pm))>>]

get_clean_text(node) ==
    IF node.kind = "comment" THEN ""
    ELSE IF node.text # None /\ node.text[1] # "" THEN strip(node.text[1])
    ELSE ""

RECURSIVE text_parts(_, _)
text_parts(d, kids) ==
    IF Len(kids) = 0 THEN <<>>
    ELSE LET child_text == get_clean_text(d[kids[1]])
         IN (IF child_text # "" THEN <<child_text>> ELSE <<>>)
            \o text_parts(d, Tail(kids))

determine_property_object_textFirst(d, i) ==
    LET elem_text == get_clean_text(d[i])
        parts == text_parts(d, InDocOrder(Children(d, i)))
    IN IF elem_text # "" THEN Some(Literal(elem_text))
       ELSE IF Has(d[i], "content") THEN Some(Literal(Attr(d[i], "content")))
       ELSE IF parts # <<>> THEN Some(Literal(join(parts)))
       ELSE None

determine_property_object(d, i) ==
    LET elem_text == get_clean_text(d[i])
        parts == text_parts(d, InDocOrder(Children(d, i)))
    IN IF Has(d[i], "content") THEN Some(Literal(Attr(d[i], "content")))
       ELSE IF elem_text # "" THEN Some(Literal(elem_text))
       ELSE IF parts # <<>> THEN Some(Literal(join(parts)))
       ELSE None

property_object_omitsEmpty(d, i, pm) ==
    IF Has(d[i], "resource")
    THEN Some(URIRef(expand_uri(Attr(d[i], "resource"), pm)))
    ELSE determine_property_object(d, i)

\* the object of one property token, or None when the token adds no triple
property_object(d, i, pm) ==
    IF Has(d[i], "resource")
    THEN Some(URIRef(expand_uri(Attr(d[i], "resource"), pm)))
    ELSE LET obj_value == determine_property_object(d, i)
         IN IF obj_value = None THEN Some(Literal("")) ELSE obj_value

RECURSIVE property_loop(_, _, _, _, _)
property_loop(d, i, subject, properties, pm) ==
    IF Len(properties) = 0 THEN <<>>
    ELSE LET expanded_prop == expand_uri(properties[1], pm)
             obj == property_object(d, i, pm)
         IN (IF obj = None THEN <<>>
             ELSE <<<<URIRef(subject), URIRef(expanded_prop), obj[1]>>>>)
            \o property_loop(d, i, subject, Tail(properties), pm)

property_adds(d, i, subject, pm) ==
    IF ~Has(d[i], "property") THEN <<>>
    ELSE property_loop(d, i, subject, split(Attr(d[i], "property")), pm)

\* the elements .//*[@resource] selects below node i, in document order
resource_xpath_childrenOnly(d, i) ==
    InDocOrder({j \in Children(d, i) :
                d[j].kind = "element" /\ Has(d[j], "resource")})

resource_xpath(d, i) ==
    InDocOrder({j \in Descendants(d, i) :
                d[j].kind = "element" /\ Has(d[j], "resource")})

rel_adds(d, i, subject, pm) ==
    IF ~Has(d[i], "rel") THEN <<>>
    ELSE LET relations == split(Attr(d[i], "rel"))
             resource_elems == resource_xpath(d, i)
             nr == Len(resource_elems)
         IN IF Has(d[i], "resource")
            THEN [k \in 1..Len(relations) |->
                    <<URIRef(subject), URIRef(expand_uri(relations[k], pm)),
                      URIRef(expand_uri(Attr(d[i], "resource"), pm))>>]
            ELSE [k \in 1..(Len(relations) * nr) |->
                    <<URIRef(subject),
                      URIRef(expand_uri(relations[((k - 1) \div nr) + 1], pm)),
                      URIRef(expand_uri(
                          Attr(d[resource_elems[((k - 1) % nr) + 1]], "resource"),
                          pm))>>]

rev_adds(el, subject, parent_subject, pm) ==
    IF ~Has(el, "rev") \/ ~Has(el, "resource") THEN <<>>
    ELSE LET revs == split(Attr(el, "rev"))
             obj_uri == expand_uri(Attr(el, "resource"), pm)
             subject_uri == IF Truthy(subject) THEN subject ELSE parent_subject
         IN IF ~Truthy(subject_uri) THEN <<>>
            ELSE [k \in 1..Len(revs) |->
                    <<URIRef(obj_uri), URIRef(expand_uri(revs[k], pm)),
                      URIRef(subject_uri[1])>>]

\* graph.add, once per triple of the sequence
graph_add_replaces(g, adds) == SeqToSet(adds)

graph_add(g, adds) == g \cup SeqToSet(adds)

----------------------------------------------------------------------------
(* process_element as a function of the graph: the graph after the walk of *)
(* node i with inherited subject parent_subject.                           *)

process_attributes(d, i, current_subject, parent_subject, g, pm) ==
    LET g1 == graph_add(g, typeof_adds(d[i], current_subject[1], pm))
        g2 == graph_add(g1, property_adds(d, i, current_subject[1], pm))
        g3 == graph_add(g2, rel_adds(d, i, current_subject[1], pm))
    IN graph_add(g3, rev_adds(d[i], current_subject, parent_subject, pm))

RECURSIVE process_element(_, _, _, _, _)
RECURSIVE process_children(_, _, _, _, _)
process_children(d, kids, current_subject, g, pm) ==
    IF Len(kids) = 0 THEN g
    ELSE process_children(d, Tail(kids), current_subject,
                          process_element(d, kids[1], current_subject, g, pm),
                          pm)

process_element(d, i, parent_subject, g, pm) ==
    LET current_subject == determine_subject(d[i], parent_subject, pm)
        g1 == IF Truthy(current_subject)
              THEN process_attributes(d, i, current_subject, parent_subject,
                                      g, pm)
              ELSE g
    IN process_children(d, InDocOrder(Children(d, i)), current_subject, g1, pm)

----------------------------------------------------------------------------
(* tei_rdfa as a state machine *)

NoEmission == [proc |-> "none", node |-> 0, subject |-> "", adds |-> <<>>]
NoCall == [fn |-> "none"]

Frame(i, parent_subject) ==
    [node |-> i, parent_subject |-> parent_subject, current_subject |-> None,
     step |-> "subject", todo |-> <<>>, ran |-> FALSE]

Top == stack[Len(stack)]
SetTop(f) == [stack EXCEPT ![Len(stack)] = f]

\* line 119: the inherited subject a matched element is walked with
matched_parent_subject_fromParent(d, m, pm) ==
    IF d[m].parent = 0 THEN None
    ELSE determine_subject(d[d[m].parent], None, pm)

matched_parent_subject(d, m, pm) == None

\* lines 64-68: walk the whole tree, or hand over to process_xpath_elements
Start ==
    /\ pc = "start"
    /\ IF xpath_expr = None
       THEN /\ pc' = "walk"
            /\ stack' = <<Frame(1, None)>>
       ELSE /\ pc' = "xpath"
            /\ stack' = stack
    /\ UNCHANGED <<doc, prefix_map, xpath_expr, elements, graph, emitted,
                   result, call, pool>>

XPathEvaluate_emptyIsNoError ==
    /\ pc = "xpath"
    /\ IF xpath_expr[1] = "invalid"
       THEN /\ pc' = "raised"
            /\ result' = <<"ValueError",
                           "Value error encountered: Invalid XPath expression">>
            /\ elements' = elements
       ELSE /\ pc' = "matched"
            /\ result' = result
            /\ elements' = xpath_expr[2]
    /\ UNCHANGED <<doc, prefix_map, xpath_expr, stack, graph, emitted, call,
                   pool>>

\* lines 102-116 and 121-125, with the re-raise of lines 81-82
XPathEvaluate ==
    /\ pc = "xpath"
    /\ IF xpath_expr[1] = "invalid"
       THEN /\ pc' = "raised"
            /\ result' = <<"ValueError",
                           "Value error encountered: Invalid XPath expression">>
            /\ elements' = elements
       ELSE IF xpath_expr[2] = <<>>
       THEN /\ pc' = "raised"
            /\ result' = <<"ValueError",
                           "Value error encountered: No elements matching XPath expression">>
            /\ elements' = elements
       ELSE /\ pc' = "matched"
            /\ result' = result
            /\ elements' = xpath_expr[2]
    /\ UNCHANGED <<doc, prefix_map, xpath_expr, stack, graph, emitted, call,
                   pool>>

\* lines 118-119: the next matched element is walked
NextMatched ==
    /\ pc = "matched"
    /\ elements # <<>>
    /\ stack' = <<Frame(Head(elements),
                        matched_parent_subject(doc, Head(elements), prefix_map))>>
    /\ elements' = Tail(elements)
    /\ pc' = "walk"
    /\ UNCHANGED <<doc, prefix_map, xpath_expr, graph, emitted, result, call,
                   pool>>

\* lines 223-225
DetermineSubject ==
    /\ pc = "walk"
    /\ Top.step = "subject"
    /\ LET current_subject ==
               determine_subject(doc[Top.node], Top.parent_subject, prefix_map)
       IN stack' = SetTop([Top EXCEPT
              !.current_subject = current_subject,
              !.step = IF Truthy(current_subject) THEN "typeof" ELSE "children",
              !.ran = Truthy(current_subject),
              !.todo = InDocOrder(Children(doc, Top.node))])
    /\ UNCHANGED <<doc, prefix_map, xpath_expr, pc, elements, graph, emitted,
                   result, call, pool>>

Emit(proc, adds, next) ==
    /\ graph' = graph_add(graph, adds)
    /\ emitted' = [proc |-> proc, node |-> Top.node,
                   subject |-> Top.current_subject[1], adds |-> adds]
    /\ stack' = SetTop([Top EXCEPT !.step = next])
    /\ UNCHANGED <<doc, prefix_map, xpath_expr, pc, elements, result, call,
                   pool>>

\* line 226
ProcessTypeof ==
    /\ pc = "walk"
    /\ Top.step = "typeof"
    /\ Emit("typeof",
            typeof_adds(doc[Top.node], Top.current_subject[1], prefix_map),
            "property")

\* line 228
ProcessProperty ==
    /\ pc = "walk"
    /\ Top.step = "property"
    /\ Emit("property",
            property_adds(doc, Top.node, Top.current_subject[1], prefix_map),
            "rel")

\* line 230
ProcessRel ==
    /\ pc = "walk"
    /\ Top.step = "rel"
    /\ Emit("rel",
            rel_adds(doc, Top.node, Top.current_subject[1], prefix_map),
            "rev")

\* line 232
ProcessRev ==
    /\ pc = "walk"
    /\ Top.step = "rev"
    /\ Emit("rev",
            rev_adds(doc[Top.node], Top.current_subject, Top.parent_subject,
                     prefix_map),
            "children")

\* lines 235-236: the next child is walked with this element's subject
EnterChild ==
    /\ pc = "walk"
    /\ Top.step = "children"
    /\ Top.todo # <<>>
    /\ stack' = Append(SetTop([Top EXCEPT !.todo = Tail(Top.todo)]),
                       Frame(Head(Top.todo), Top.current_subject))
    /\ UNCHANGED <<doc, prefix_map, xpath_expr, pc, elements, graph, emitted,
                   result, call, pool>>

\* line 238
Return ==
    /\ pc = "walk"
    /\ Top.step = "children"
    /\ Top.todo = <<>>
    /\ stack' = SubSeq(stack, 1, Len(stack) - 1)
    /\ pc' = IF Len(stack) > 1 THEN "walk"
             ELSE IF xpath_expr = None THEN "return" ELSE "matched"
    /\ UNCHANGED <<doc, prefix_map, xpath_expr, elements, graph, emitted,
                   result, call, pool>>

\* line 78
Finish ==
    /\ \/ pc = "return"
       \/ pc = "matched" /\ elements = <<>>
    /\ pc' = "done"
    /\ result' = <<"Graph", graph>>
    /\ UNCHANGED <<doc, prefix_map, xpath_expr, elements, stack, graph,
                   emitted, call, pool>>

Next ==
    \/ Start
    \/ XPathEvaluate
    \/ NextMatched
    \/ DetermineSubject
    \/ ProcessTypeof
    \/ ProcessProperty
    \/ ProcessRel
    \/ ProcessRev
    \/ EnterChild
    \/ Return
    \/ Finish

----------------------------------------------------------------------------
(* Inputs: documents, prefix tables and queries *)

NoAttrs == [a \in AttrNames |-> None]
Attrs(r) == [a \in AttrNames |-> IF a \in DOMAIN r THEN Some(r[a]) ELSE None]
Element(attrib, text, tail) ==
    [kind |-> "element", attrib |-> attrib, text |-> text, tail |-> tail]
Comment(text) ==
    [kind |-> "comment", attrib |-> NoAttrs, text |-> Some(text), tail |-> None]

RECURSIVE AncestorIn(_, _, _)
AncestorIn(p, a, j) == p[j] # 0 /\ (p[j] = a \/ AncestorIn(p, a, p[j]))

\* parent vectors of the ordered trees of n nodes numbered in document order
Shapes(n) ==
    {p \in [1..n -> 0..n] :
        /\ p[1] = 0
        /\ \A i \in 2..n : p[i] = i - 1 \/ AncestorIn(p, p[i], i - 1)}

TreeOf(p, nodes) ==
    [i \in DOMAIN p |->
        [kind |-> nodes[i].kind, attrib |-> nodes[i].attrib,
         text |-> nodes[i].text, tail |-> nodes[i].tail, parent |-> p[i]]]

\* only elements have children
WellFormed(d) == \A i \in DOMAIN d : d[i].parent # 0 => d[d[i].parent].kind = "element"

\* the prefix table get_tei_prefixes returns: the well-known defaults, and
\* the bindings the document declares
DefaultPrefixes ==
    [dc |-> "http://purl.org/dc/elements/1.1/",
     rdf |-> "http://www.w3.org/1999/02/22-rdf-syntax-ns#",
     rdfs |-> "http://www.w3.org/2000/01/rdf-schema#"]
ExPrefixes ==
    [ex |-> "http://ex.org/",
     dc |-> "http://purl.org/dc/elements/1.1/",
     rdf |-> "http://www.w3.org/1999/02/22-rdf-syntax-ns#",
     rdfs |-> "http://www.w3.org/2000/01/rdf-schema#"]

\* a query is abstracted to its evaluation: a syntax error, or the elements
\* it selects, in document order
ElementsOf(d) == {i \in DOMAIN d : d[i].kind = "element"}
AllQueries(d) ==
    {None, <<"invalid">>}
    \cup {<<"select", InDocOrder(S)>> : S \in SUBSET ElementsOf(d)}
RootQueries(d) ==
    {None, <<"invalid">>, <<"select", <<>>>>, <<"select", <<1>>>>}

InitState(d, pm, q) ==
    /\ doc = d
    /\ prefix_map = pm
    /\ xpath_expr = q
    /\ pc = "start"
    /\ elements = <<>>
    /\ stack = <<>>
    /\ graph = {}
    /\ emitted = NoEmission
    /\ result = None
    /\ call = NoCall
    /\ pool = {}

\* documents for subject inheritance
InheritanceProfiles ==
    {Element(NoAttrs, None, None),
     Element(Attrs([about |-> "ex:S", typeof |-> "ex:T"]), None, None),
     Element(Attrs([typeof |-> "ex:T ex:U"]), None, None),
     Element(Attrs([resource |-> "ex:O"]), None, None),
     Element(Attrs([about |-> "", typeof |-> "ex:T"]), None, None)}

Init ==
    \E n \in 1..MaxNodes : \E p \in Shapes(n) :
    \E nodes \in [1..n -> InheritanceProfiles] :
    \E q \in AllQueries(TreeOf(p, nodes)) :
        InitState(TreeOf(p, nodes), ExPrefixes, q)

Spec == Init /\ [][Next]_vars

----------------------------------------------------------------------------
(* Direct calls of the helpers expand_uri, determine_subject and
   get_tei_prefixes *)

Alphabet == {"h", "x", ":", "/"}

RECURSIVE Tokens(_)
Tokens(n) == IF n = 0 THEN {""}
             ELSE Tokens(n - 1)
                  \cup {t \o c : t \in Tokens(n - 1), c \in Alphabet}

\* tables binding a document-declared prefix next to the defaults; in the
\* second the declared prefix is spelled like a URI scheme
CallPrefixTables ==
    {DefaultPrefixes,
     [x |-> "h://x/",
      dc |-> "http://purl.org/dc/elements/1.1/",
      rdf |-> "http://www.w3.org/1999/02/22-rdf-syntax-ns#",
      rdfs |-> "http://www.w3.org/2000/01/rdf-schema#"],
     [h |-> "h://x/",
      dc |-> "http://purl.org/dc/elements/1.1/",
      rdf |-> "http://www.w3.org/1999/02/22-rdf-syntax-ns#",
      rdfs |-> "http://www.w3.org/2000/01/rdf-schema#"]}

CallElements ==
    {Element([a \in AttrNames |->
                 CASE a = "about" -> about
                   [] a = "resource" -> resource
                   [] a = "property" -> property
                   [] a = "rel" -> rel
                   [] a = "rev" -> rev
                   [] OTHER -> None], None, None) :
        about \in {None, Some(""), Some("x:S"), Some("S")},
        resource \in {None, Some("x:O")},
        property \in {None, Some("x:p")},
        rel \in {None, Some("x:r")},
        rev \in {None, Some("x:r")}}

----------------------------------------------------------------------------
(* get_tei_prefixes: the prefix table built from the prefixDef elements *)

MaxDefs == 2

\* s.find(sub): 1-based position of the first occurrence, 0 when absent
find(s, sub) ==
    LET hits == {i \in 1..(Len(s) - Len(sub) + 1) :
                    SubSeq(s, i, i + Len(sub) - 1) = sub}
    IN  IF hits = {} THEN 0 ELSE Min(hits)

\* sub in s
contains(s, sub) == find(s, sub) > 0

\* s.split(sep)[0], for a separator that occurs in s
split_head(s, sep) == SubSeq(s, 1, find(s, sep) - 1)

\* lines 187-192: the '$1' test comes first, the '{$1}' test second
base_uri(replacement_pattern) ==
    IF contains(replacement_pattern, "$1")
    THEN split_head(replacement_pattern, "$1")
    ELSE IF contains(replacement_pattern, "{$1}")
         THEN split_head(replacement_pattern, "{$1}")
         ELSE replacement_pattern

\* defaultdict(str) before any assignment
EmptyPrefixMap == [p \in {} |-> ""]

\* prefix_map[prefix] = value
SetItem(pm, prefix, value) ==
    [p \in DOMAIN pm \cup {prefix} |-> IF p = prefix THEN value ELSE pm[p]]

\* lines 175-194: the loop over the prefixDef elements, in document order
RECURSIVE prefix_loop(_, _)
prefix_loop(prefix_defs, pm) ==
    IF prefix_defs = <<>> THEN pm
    ELSE LET prefix_def == Head(prefix_defs)
             prefix == prefix_def.ident
             replacement_pattern == prefix_def.replacementPattern
         IN  prefix_loop(Tail(prefix_defs),
                 IF ~Truthy(prefix) THEN pm
                 ELSE IF ~Truthy(replacement_pattern) THEN pm
                 ELSE SetItem(pm, prefix[1], base_uri(replacement_pattern[1])))

\* lines 197-202: if name not in prefix_map: prefix_map[name] = default
add_default(pm, name) ==
    IF name \notin DOMAIN pm THEN SetItem(pm, name, DefaultPrefixes[name]) ELSE pm

get_tei_prefixes(prefix_defs) ==
    add_default(add_default(add_default(
        prefix_loop(prefix_defs, EmptyPrefixMap), "dc"), "rdf"), "rdfs")

\* prefixDef elements: ident and replacementPattern absent, empty or given;
\* patterns with either placeholder form or none, with and without a suffix
CallIdents == {None, Some(""), Some("ex"), Some("dc")}

CallPatterns ==
    {None} \cup
    {Some(b \o ph \o t) : b \in {"", "h:/"}, ph \in {"", "$1", "{$1}"},
                          t \in {"", "#"}}

CallPrefixDefs == [ident : CallIdents, replacementPattern : CallPatterns]

RECURSIVE PrefixDefLists(_)
PrefixDefLists(n) ==
    IF n = 0 THEN {<<>>}
    ELSE PrefixDefLists(n - 1) \cup
         {Append(l, d) : l \in {m \in PrefixDefLists(n - 1) : Len(m) = n - 1},
                         d \in CallPrefixDefs}

InitCall ==
    /\ doc = <<>>
    /\ prefix_map = DefaultPrefixes
    /\ xpath_expr = None
    /\ pc = "call"
    /\ elements = <<>>
    /\ stack = <<>>
    /\ graph = {}
    /\ emitted = NoEmission
    /\ result = None
    /\ pool = {}
    /\ \/ \E t \in Tokens(MaxLen), pm \in CallPrefixTables :
            call = [fn |-> "expand_uri", uri_ref |-> t, prefix_map |-> pm,
                    returned |-> <<>>]
       \/ \E el \in CallElements, pm \in CallPrefixTables,
             ps \in {None, Some(""), Some("h://x/P")} :
            call = [fn |-> "determine_subject", element |-> el,
                    parent_subject |-> ps, prefix_map |-> pm,
                    returned |-> <<>>]
       \/ \E defs \in PrefixDefLists(MaxDefs) :
            call = [fn |-> "get_tei_prefixes", prefix_defs |-> defs,
                    returned |-> <<>>]

\* expand_uri applied to the token, then to its own result
CallExpandUri ==
    /\ pc = "call"
    /\ call.fn = "expand_uri"
    /\ Len(call.returned) < 2
    /\ call' = [call EXCEPT !.returned =
                   Append(@, expand_uri(IF @ = <<>> THEN call.uri_ref
                                        ELSE @[Len(@)], call.prefix_map))]
    /\ UNCHANGED <<doc, prefix_map, xpath_expr, pc, elements, stack, graph,
                   emitted, result, pool>>

CallDetermineSubject ==
    /\ pc = "call"
    /\ call.fn = "determine_subject"
    /\ call.returned = <<>>
    /\ call' = [call EXCEPT !.returned =
                   <<determine_subject(call.element, call.parent_subject,
                                       call.prefix_map)>>]
    /\ UNCHANGED <<doc, prefix_map, xpath_expr, pc, elements, stack, graph,
                   emitted, result, pool>>

CallGetTeiPrefixes ==
    /\ pc = "call"
    /\ call.fn = "get_tei_prefixes"
    /\ call.returned = <<>>
    /\ call' = [call EXCEPT !.returned = <<get_tei_prefixes(call.prefix_defs)>>]
    /\ UNCHANGED <<doc, prefix_map, xpath_expr, pc, elements, stack, graph,
                   emitted, result, pool>>

NextCall == CallExpandUri \/ CallDetermineSubject \/ CallGetTeiPrefixes

SpecCall == InitCall /\ [][NextCall]_vars

----------------------------------------------------------------------------
(* C1: determine_subject follows the three-rule priority: the expanded     *)
(* `about` whatever else is given; otherwise the expanded `resource` when  *)
(* none of `property`, `rel`, `rev` is present; otherwise the inherited    *)
(* subject unchanged, absent included.                                     *)

C1_Rule(el, inherited, pm) ==
    CASE el.attrib["about"] # None -> Some(expand_uri(el.attrib["about"][1], pm))
      [] el.attrib["about"] = None /\ el.attrib["resource"] # None
         /\ el.attrib["property"] = None /\ el.attrib["rel"] = None
         /\ el.attrib["rev"] = None
            -> Some(expand_uri(el.attrib["resource"][1], pm))
      [] OTHER -> inherited

C1_SubjectPriority ==
    (call.fn = "determine_subject" /\ call.returned # <<>>)
        => call.returned[1]
             = C1_Rule(call.element, call.parent_subject, call.prefix_map)

\* `resource` with `property` and no `about`: the inherited subject is kept
C1_Witness ==
    /\ call.fn = "determine_subject"
    /\ call.returned # <<>>
    /\ call.element.attrib["about"] = None
    /\ call.element.attrib["resource"] # None
    /\ call.element.attrib["property"] # None
    /\ call.element.attrib["rel"] = None
    /\ call.element.attrib["rev"] = None
    /\ call.parent_subject = Some("h://x/P")
    /\ call.returned[1] = Some("h://x/P")

----------------------------------------------------------------------------
(* C9: expand_uri returns base URI + local part for a token whose part     *)
(* before the first colon is a key of the table and every other token      *)
(* unchanged; applied to a token without a colon, or whose part before the *)
(* first colon is no key of the table, expand(expand(x)) = expand(x).      *)

C9_Colons(x) == {i \in 1..Len(x) : SubSeq(x, i, i) = ":"}
C9_Prefix(x) == SubSeq(x, 1, Min(C9_Colons(x)) - 1)
C9_Local(x) == SubSeq(x, Min(C9_Colons(x)) + 1, Len(x))
C9_Prefixed(x, pm) == C9_Colons(x) # {} /\ C9_Prefix(x) \in DOMAIN pm

\* scheme "://" rest, the scheme a non-empty run of letters
C9_IsAbsoluteURI(x) ==
    /\ C9_Colons(x) # {}
    /\ C9_Prefix(x) # ""
    /\ \A i \in 1..Len(C9_Prefix(x)) : SubSeq(x, i, i) \notin {":", "/"}
    /\ Len(C9_Local(x)) >= 2
    /\ SubSeq(C9_Local(x), 1, 2) = "//"

C9_ExpandIdempotentUnprefixed ==
    call.fn = "expand_uri" =>
        /\ Len(call.returned) >= 1 =>
              call.returned[1] =
                 IF C9_Prefixed(call.uri_ref, call.prefix_map)
                 THEN call.prefix_map[C9_Prefix(call.uri_ref)]
                         \o C9_Local(call.uri_ref)
                 ELSE call.uri_ref
        /\ (Len(call.returned) = 2
            /\ ~C9_Prefixed(call.uri_ref, call.prefix_map)) =>
              call.returned[2] = call.returned[1]

\* an absolute URI whose scheme is no key of the table is a fixed point
C9_Witness ==
    /\ call.fn = "expand_uri"
    /\ call.uri_ref = "h://"
    /\ "h" \notin DOMAIN call.prefix_map
    /\ "x" \in DOMAIN call.prefix_map
    /\ call.returned = <<"h://", "h://">>

\* C9 as stated: idempotent on every token without a colon and on every
\* absolute URI, for every prefix table
C9_AsStated ==
    (/\ call.fn = "expand_uri"
     /\ Len(call.returned) = 2
     /\ (C9_Colons(call.uri_ref) = {} \/ C9_IsAbsoluteURI(call.uri_ref)))
        => call.returned[2] = call.returned[1]

----------------------------------------------------------------------------
(* C2: in a walk started with an absent inherited subject every element is *)
(* processed with the subject established by its nearest ancestor-or-self  *)
(* inside the walked subtree that carries `about` or a qualifying          *)
(* `resource`; with no such node the subject is absent, the element emits  *)
(* nothing and its descendants are still walked; an element whose subject  *)
(* has been established has its attribute processors run.                  *)

C2_Establishes(el) ==
    \/ el.attrib["about"] # None
    \/ /\ el.attrib["resource"] # None
       /\ el.attrib["property"] = None
       /\ el.attrib["rel"] = None
       /\ el.attrib["rev"] = None

C2_Established(el, pm) ==
    IF el.attrib["about"] # None THEN expand_uri(el.attrib["about"][1], pm)
    ELSE expand_uri(el.attrib["resource"][1], pm)

RECURSIVE C2_Subject(_, _, _, _)
C2_Subject(d, root, n, pm) ==
    IF C2_Establishes(d[n]) THEN Some(C2_Established(d[n], pm))
    ELSE IF n = root THEN None
    ELSE C2_Subject(d, root, d[n].parent, pm)

C2_Inherited(d, root, n, pm) ==
    IF n = root THEN None ELSE C2_Subject(d, root, d[n].parent, pm)

\* the triples the processors add for node n under subject s
C2_Own(d, root, n, pm) ==
    LET s == C2_Subject(d, root, n, pm)
    IN IF s = None THEN {}
       ELSE process_attributes(d, n, s, C2_Inherited(d, root, n, pm), {}, pm)

C2_Roots == IF xpath_expr = None THEN {1} ELSE SeqToSet(xpath_expr[2])

C2_AsStated ==
    /\ \A k \in 1..Len(stack) :
          stack[k].step # "subject" =>
             /\ stack[k].current_subject
                  = C2_Subject(doc, stack[1].node, stack[k].node, prefix_map)
             /\ stack[k].ran <=> (stack[k].current_subject # None)
    /\ pc = "done" =>
          graph = UNION {UNION {C2_Own(doc, m, n, prefix_map) :
                                  n \in Subtree(doc, m)} : m \in C2_Roots}

\* what the code does: the processors run exactly when the subject is a
\* non-empty string
C2_NonEmptySubjects ==
    /\ \A k \in 1..Len(stack) :
          stack[k].step # "subject" =>
             /\ stack[k].current_subject
                  = C2_Subject(doc, stack[1].node, stack[k].node, prefix_map)
             /\ stack[k].ran <=> Truthy(stack[k].current_subject)
    /\ pc = "done" =>
          graph = UNION {UNION {IF Truthy(C2_Subject(doc, m, n, prefix_map))
                                THEN C2_Own(doc, m, n, prefix_map) ELSE {} :
                                  n \in Subtree(doc, m)} : m \in C2_Roots}

----------------------------------------------------------------------------
(* C6: a query that matches no element fails the invocation: an error is   *)
(* raised, no graph is returned and no triple has been added; a malformed  *)
(* query fails it too, with a different error.                             *)

C6_NoMatchError ==
    <<"ValueError",
      "Value error encountered: No elements matching XPath expression">>

C6_EmptySelectionFails ==
    /\ (xpath_expr = <<"select", <<>>>> /\ pc \notin {"start", "xpath"}) =>
          /\ pc = "raised"
          /\ result = C6_NoMatchError
          /\ graph = {}
    /\ (xpath_expr = <<"invalid">> /\ pc \notin {"start", "xpath"}) =>
          /\ pc = "raised"
          /\ result[1] = "ValueError"
          /\ result # C6_NoMatchError
          /\ graph = {}
    /\ pc = "raised" => xpath_expr \in {<<"select", <<>>>>, <<"invalid">>}

C6_Witness ==
    /\ xpath_expr = <<"select", <<>>>>
    /\ pc = "raised"
    /\ result = C6_NoMatchError
    /\ \E i \in DOMAIN doc : Has(doc[i], "about") /\ Has(doc[i], "typeof")

----------------------------------------------------------------------------
(* C8: with a query that matches at least one element, each matched        *)
(* element is walked with an absent inherited subject, and the graph       *)
(* returned is the union of the triples of these walks; no subject from    *)
(* outside a matched element is inherited by it.                           *)

C8_Matched == xpath_expr # None /\ xpath_expr[1] = "select" /\ xpath_expr[2] # <<>>

C8_MatchedWalkedAsRoots ==
    C8_Matched =>
        /\ stack # <<>> =>
              /\ stack[1].node \in SeqToSet(xpath_expr[2])
              /\ stack[1].parent_subject = None
        /\ pc = "done" =>
              /\ result = <<"Graph", graph>>
              /\ graph = UNION {process_element(doc, m, None, {}, prefix_map) :
                                  m \in SeqToSet(xpath_expr[2])}

\* only the child of a subject-establishing root is matched: its typeof
\* finds no subject
C8_Witness ==
    /\ pc = "done"
    /\ xpath_expr = <<"select", <<2>>>>
    /\ Has(doc[1], "about") /\ Attr(doc[1], "about") = "ex:S"
    /\ Has(doc[2], "typeof") /\ ~Has(doc[2], "about")
    /\ graph = {}

----------------------------------------------------------------------------
(* Documents for the relation processor *)

RelProfiles ==
    {Element(NoAttrs, None, None),
     Element(Attrs([about |-> "ex:S", rel |-> "ex:r dc:q"]), None, None),
     Element(Attrs([about |-> "ex:S", rel |-> "ex:r dc:q", resource |-> "ex:O"]),
             None, None),
     Element(Attrs([resource |-> "ex:O"]), None, None),
     Element(Attrs([resource |-> "ex:Q"]), None, None)}

InitRel ==
    \E n \in 1..MaxNodes : \E p \in Shapes(n) :
    \E nodes \in [1..n -> RelProfiles] :
    \E q \in RootQueries(TreeOf(p, nodes)) :
        InitState(TreeOf(p, nodes), ExPrefixes, q)

SpecRel == InitRel /\ [][Next]_vars

(* C5: for an element with subject S, `rel` and no `resource` of its own,  *)
(* the rel processor emits for each relation token one triple per          *)
(* descendant, at any depth, that carries `resource`, and nothing when no  *)
(* descendant does; with a `resource` of its own that value is the object  *)
(* for every token and the descendants are not consulted.                  *)

C5_Triple(S, r, res, pm) ==
    <<URIRef(S), URIRef(expand_uri(r, pm)), URIRef(expand_uri(res, pm))>>

C5_RelObjects ==
    (emitted.proc = "rel" /\ doc[emitted.node].attrib["rel"] # None) =>
        LET n == emitted.node
            S == emitted.subject
            tokens == split(doc[n].attrib["rel"][1])
            below == {j \in Descendants(doc, n) : doc[j].attrib["resource"] # None}
        IN /\ SeqToSet(emitted.adds) \subseteq graph
           /\ IF doc[n].attrib["resource"] # None
              THEN emitted.adds =
                      [k \in 1..Len(tokens) |->
                          C5_Triple(S, tokens[k], doc[n].attrib["resource"][1],
                                    prefix_map)]
              ELSE /\ Len(emitted.adds) = Len(tokens) * Cardinality(below)
                   /\ SeqToSet(emitted.adds) =
                         {C5_Triple(S, tokens[k], doc[j].attrib["resource"][1],
                                    prefix_map) : k \in 1..Len(tokens), j \in below}

\* a child and a grandchild carry `resource`: two triples per token
C5_Witness ==
    /\ emitted.proc = "rel"
    /\ emitted.node = 1
    /\ Has(doc[1], "rel") /\ ~Has(doc[1], "resource")
    /\ Len(doc) = 3 /\ doc[3].parent = 2
    /\ Has(doc[2], "resource") /\ Has(doc[3], "resource")
    /\ Attr(doc[2], "resource") # Attr(doc[3], "resource")
    /\ Len(emitted.adds) = 4
    /\ Cardinality(graph) = 4

----------------------------------------------------------------------------
(* Documents for the reverse-relation processor *)

RevProfiles ==
    {Element(NoAttrs, None, None),
     Element(Attrs([about |-> "ex:S"]), None, None),
     Element(Attrs([rev |-> "ex:r dc:q", resource |-> "ex:O"]), None, None),
     Element(Attrs([about |-> "ex:B", rev |-> "ex:r", resource |-> "ex:O"]),
             None, None),
     Element(Attrs([about |-> "", rev |-> "ex:r", resource |-> "ex:O"]),
             None, None),
     Element(Attrs([rev |-> "ex:r"]), None, None)}

InitRev ==
    \E n \in 1..MaxNodes : \E p \in Shapes(n) :
    \E nodes \in [1..n -> RevProfiles] :
    \E q \in RootQueries(TreeOf(p, nodes)) :
        InitState(TreeOf(p, nodes), ExPrefixes, q)

SpecRev == InitRev /\ [][Next]_vars

(* C4: for every element the walk visits that has both `rev` and           *)
(* `resource`, the acting subject is the element's own resolved subject if *)
(* present, else the inherited parent subject; when either is available    *)
(* the walk adds (expand(resource), expand(r), acting subject) for each    *)
(* `rev` token r; an element with `rev` and no `resource` adds nothing.    *)

C4_Acting(f) ==
    IF f.current_subject # None /\ f.current_subject[1] # ""
    THEN f.current_subject ELSE f.parent_subject

C4_ReverseTriples ==
    /\ \A k \in 1..Len(stack) :
          LET f == stack[k]
              el == doc[f.node]
              acting == C4_Acting(f)
          IN (/\ f.step = "children"
              /\ el.attrib["rev"] # None /\ el.attrib["resource"] # None
              /\ acting # None /\ acting[1] # "") =>
                \A t \in SeqToSet(split(el.attrib["rev"][1])) :
                    <<URIRef(expand_uri(el.attrib["resource"][1], prefix_map)),
                      URIRef(expand_uri(t, prefix_map)),
                      URIRef(acting[1])>> \in graph
    /\ (emitted.proc = "rev" /\ doc[emitted.node].attrib["rev"] # None
        /\ doc[emitted.node].attrib["resource"] = None) => emitted.adds = <<>>

----------------------------------------------------------------------------
(* Documents for the property processor: a root with a subject and a       *)
(* `property`, over children with text, blank text, a tail, or comments    *)

PropertyProfiles ==
    {Element([a \in AttrNames |->
                 CASE a = "about" -> Some("ex:S")
                   [] a = "property" -> Some(property)
                   [] a = "resource" -> resource
                   [] a = "content" -> content
                   [] OTHER -> None], text, None) :
        property \in {"ex:p", " ex:p  dc:q ", ""},
        resource \in {None, Some("ex:O")},
        content \in {None, Some(""), Some("v")},
        text \in {None, Some(" "), Some(" v ")}}

ChildProfiles ==
    {Element(NoAttrs, Some(" c "), Some("t")),
     Element(NoAttrs, Some("d"), None),
     Element(NoAttrs, Some(" "), None),
     Comment("k")}

InitProperty ==
    \E n \in 1..MaxNodes : \E p \in Shapes(n) :
    \E root \in PropertyProfiles :
    \E nodes \in [2..n -> ChildProfiles] :
    \E q \in RootQueries(TreeOf(p, [i \in 1..n |-> IF i = 1 THEN root ELSE nodes[i]])) :
        /\ WellFormed(TreeOf(p, [i \in 1..n |-> IF i = 1 THEN root ELSE nodes[i]]))
        /\ InitState(TreeOf(p, [i \in 1..n |-> IF i = 1 THEN root ELSE nodes[i]]),
                     ExPrefixes, q)

SpecProperty == InitProperty /\ [][Next]_vars

C3_Blank(node) == node.text = None \/ strip(node.text[1]) = ""

\* subject, `property`, no `resource`, no `content`, no own text, no child text
C3_Case(d, n) ==
    /\ d[n].attrib["property"] # None
    /\ d[n].attrib["resource"] = None
    /\ d[n].attrib["content"] = None
    /\ C3_Blank(d[n])
    /\ \A j \in DOMAIN d : d[j].parent = n => (d[j].kind = "comment" \/ C3_Blank(d[j]))

(* C3: for an element with subject S and a `property` attribute, without   *)
(* `resource`, without `content`, with no own text and no child text, the  *)
(* walk adds (S, expand(p), "") for each property token p; with at least   *)
(* one property token it never yields zero triples.                        *)

RECURSIVE C7_Joined(_, _)
C7_Joined(d, kids) ==
    IF kids = {} THEN ""
    ELSE LET j == Min(kids)
             rest == C7_Joined(d, kids \ {j})
         IN IF rest = "" THEN strip(d[j].text[1])
            ELSE strip(d[j].text[1]) \o " " \o rest

C7_Object(d, n, pm) ==
    LET texted == {j \in DOMAIN d : /\ d[j].parent = n
                                    /\ d[j].kind = "element"
                                    /\ ~C3_Blank(d[j])}
    IN CASE d[n].attrib["resource"] # None
              -> URIRef(expand_uri(d[n].attrib["resource"][1], pm))
         [] d[n].attrib["resource"] = None /\ d[n].attrib["content"] # None
              -> Literal(d[n].attrib["content"][1])
         [] d[n].attrib["resource"] = None /\ d[n].attrib["content"] = None
            /\ ~C3_Blank(d[n])
              -> Literal(strip(d[n].text[1]))
         [] d[n].attrib["resource"] = None /\ d[n].attrib["content"] = None
            /\ C3_Blank(d[n]) /\ texted # {}
              -> Literal(C7_Joined(d, texted))
         [] OTHER -> Literal("")

C7_ObjectPrecedence ==
    (emitted.proc = "property" /\ doc[emitted.node].attrib["property"] # None) =>
        LET tokens == split(doc[emitted.node].attrib["property"][1])
        IN /\ emitted.adds =
                 [k \in 1..Len(tokens) |->
                     <<URIRef(emitted.subject),
                       URIRef(expand_uri(tokens[k], prefix_map)),
                       C7_Object(doc, emitted.node, prefix_map)>>]
           /\ SeqToSet(emitted.adds) \subseteq graph

\* <a about="ex:S" property="ex:p" content="v"/>, here with own text too
C7_Witness ==
    /\ pc = "done"
    /\ Len(doc) = 1
    /\ doc[1].attrib["property"] = Some("ex:p")
    /\ doc[1].attrib["content"] = Some("v")
    /\ doc[1].attrib["resource"] = None
    /\ doc[1].text = Some(" v ")
    /\ graph = {<<URIRef("http://ex.org/S"), URIRef("http://ex.org/p"),
                  Literal("v")>>}

----------------------------------------------------------------------------
(* The walk in any order: process_element's body for one element is one    *)
(* step, and the pending walks of children and of matched elements are     *)
(* taken in any order, those of independent subtrees interleaved.          *)

\* lines 118-119 as a function of the graph
RECURSIVE process_matched(_, _, _, _)
process_matched(d, elems, g, pm) ==
    IF Len(elems) = 0 THEN g
    ELSE process_matched(d, Tail(elems),
                         process_element(d, elems[1], None, g, pm), pm)

AnyOrderProfiles ==
    {Element(Attrs([about |-> "ex:S", typeof |-> "ex:T"]), None, None),
     Element(Attrs([property |-> "ex:p"]), Some(" v "), None),
     Element(Attrs([rel |-> "ex:r"]), None, None),
     Element(Attrs([resource |-> "ex:O"]), None, None),
     Element(Attrs([rev |-> "ex:r", resource |-> "ex:O"]), None, None)}

InitAnyOrder ==
    \E n \in 1..MaxNodes : \E p \in Shapes(n) :
    \E nodes \in [1..n -> AnyOrderProfiles] :
    \E q \in {None} \cup {<<"select", InDocOrder(S)>> : S \in (SUBSET (1..n)) \ {{}}} :
        InitState(TreeOf(p, nodes), ExPrefixes, q)

AnyStart ==
    /\ pc = "start"
    /\ pc' = "anyorder"
    /\ pool' = IF xpath_expr = None
               THEN {[node |-> 1, parent_subject |-> None]}
               ELSE {[node |-> m, parent_subject |-> None] :
                        m \in SeqToSet(xpath_expr[2])}
    /\ UNCHANGED <<doc, prefix_map, xpath_expr, elements, stack, graph,
                   emitted, result, call>>

\* lines 223-236 for one pending element
WalkAny ==
    /\ pc = "anyorder"
    /\ \E t \in pool :
          LET current_subject ==
                  determine_subject(doc[t.node], t.parent_subject, prefix_map)
          IN /\ graph' = IF Truthy(current_subject)
                         THEN process_attributes(doc, t.node, current_subject,
                                                 t.parent_subject, graph,
                                                 prefix_map)
                         ELSE graph
             /\ pool' = (pool \ {t})
                        \cup {[node |-> c, parent_subject |-> current_subject] :
                                 c \in Children(doc, t.node)}
    /\ UNCHANGED <<doc, prefix_map, xpath_expr, pc, elements, stack, emitted,
                   result, call>>

AnyFinish ==
    /\ pc = "anyorder"
    /\ pool = {}
    /\ pc' = "done"
    /\ result' = <<"Graph", graph>>
    /\ UNCHANGED <<doc, prefix_map, xpath_expr, elements, stack, graph,
                   emitted, call, pool>>

NextAnyOrder == AnyStart \/ WalkAny \/ AnyFinish

SpecAnyOrder == InitAnyOrder /\ [][NextAnyOrder]_vars

(* C10: the final graph does not depend on the traversal order: whatever   *)
(* the order in which children, matched elements and independent subtrees  *)
(* are walked, the walk ends with the graph of the document-order walk;    *)
(* during the walk no triple is removed, and the tree and the prefix table *)
(* are not modified.                                                       *)

C10_DocumentOrderGraph ==
    IF xpath_expr = None THEN process_element(doc, 1, None, {}, prefix_map)
    ELSE process_matched(doc, xpath_expr[2], {}, prefix_map)

C10_OrderIndependent ==
    /\ [][/\ graph \subseteq graph'
          /\ doc' = doc
          /\ prefix_map' = prefix_map]_vars
    /\ [](pc = "done" => graph = C10_DocumentOrderGraph)

\* the second child has been walked before the first
C10_Witness ==
    /\ pc = "anyorder"
    /\ Len(doc) = 3 /\ doc[2].parent = 1 /\ doc[3].parent = 1
    /\ Has(doc[1], "about")
    /\ Has(doc[2], "property")
    /\ Has(doc[3], "rev")
    /\ pool = {[node |-> 2, parent_subject |-> Some("http://ex.org/S")]}
    /\ <<URIRef("http://ex.org/O"), URIRef("http://ex.org/r"),
         URIRef("http://ex.org/S")>> \in graph

----------------------------------------------------------------------------
(* C11: the prefix table returned by get_tei_prefixes *)

C11_Returned ==
    pc = "call" /\ call.fn = "get_tei_prefixes" /\ call.returned # <<>>

\* the prefixDef elements that have a non-empty ident and a non-empty pattern
C11_Declaring(defs) ==
    {i \in 1..Len(defs) : Truthy(defs[i].ident) /\ Truthy(defs[i].replacementPattern)}

\* the declaring prefixDef that is the last one of its ident
C11_Effective(defs) ==
    {i \in C11_Declaring(defs) :
        \A j \in C11_Declaring(defs) : defs[j].ident = defs[i].ident => j <= i}

\* the placeholder a pattern holds: the braced form, the bare form, or none
C11_Placeholder(p) ==
    IF \E i \in 1..(Len(p) - 3) : SubSeq(p, i, i + 3) = "{$1}" THEN "{$1}"
    ELSE IF \E i \in 1..(Len(p) - 1) : SubSeq(p, i, i + 1) = "$1" THEN "$1"
    ELSE ""

\* the part of the pattern that precedes its placeholder; the whole pattern
\* when it has none
C11_Preceding(p) ==
    LET ph == C11_Placeholder(p)
    IN  IF ph = "" THEN p
        ELSE SubSeq(p, 1, Min({i \in 1..(Len(p) - Len(ph) + 1) :
                                  SubSeq(p, i, i + Len(ph) - 1) = ph}) - 1)

C11_WellKnown == {"dc", "rdf", "rdfs"}

\* the binding of the i-th prefixDef is in the table
C11_Bound(defs, table, i) ==
    /\ defs[i].ident[1] \in DOMAIN table
    /\ table[defs[i].ident[1]] = C11_Preceding(defs[i].replacementPattern[1])

\* dc, rdf and rdfs are always bound, to the default unless declared
C11_Defaults(defs, table) ==
    /\ C11_WellKnown \subseteq DOMAIN table
    /\ \A k \in C11_WellKnown :
          (\A i \in C11_Declaring(defs) : defs[i].ident[1] # k)
              => table[k] = DefaultPrefixes[k]

\* C11: every prefixDef with a non-empty ident and a non-empty
\* replacementPattern binds its ident to the part of the pattern that precedes
\* the placeholder, for both placeholder forms $1 and {$1}, and to the whole
\* pattern when it has no placeholder; the returned table always contains dc,
\* rdf and rdfs, a declared binding taking the place of the well-known default.
C11_AsStated ==
    C11_Returned =>
        LET defs == call.prefix_defs
            table == call.returned[1]
        IN  /\ \A i \in C11_Effective(defs) : C11_Bound(defs, table, i)
            /\ C11_Defaults(defs, table)

\* The statement holds for every prefixDef whose pattern has no braced
\* placeholder, and the well-known prefixes are always bound as stated.
C11_BareForm ==
    C11_Returned =>
        LET defs == call.prefix_defs
            table == call.returned[1]
        IN  /\ \A i \in C11_Effective(defs) :
                  C11_Placeholder(defs[i].replacementPattern[1]) # "{$1}"
                      => C11_Bound(defs, table, i)
            /\ C11_Defaults(defs, table)
            /\ DOMAIN table =
                  C11_WellKnown \cup {defs[i].ident[1] : i \in C11_Declaring(defs)}

\* A braced placeholder leaves its opening brace at the end of the base URI.
C11_BraceKept ==
    C11_Returned =>
        \A i \in C11_Effective(call.prefix_defs) :
            LET p == call.prefix_defs[i].replacementPattern[1]
            IN  C11_Placeholder(p) = "{$1}"
                    => call.returned[1][call.prefix_defs[i].ident[1]]
                           = C11_Preceding(p) \o "{"

\* a braced pattern has been bound
C11_BraceReached ==
    /\ C11_Returned
    /\ \E i \in C11_Effective(call.prefix_defs) :
          call.prefix_defs[i].replacementPattern[1] = "h:/{$1}"

====
